---- MODULE Spec2Model ----
(***************************************************************************)
(* Model of the social-graph pipeline: build_networks.py (diffusion and    *)
(* friendship graph assembly, export), collect_keyword_posts.py            *)
(* (deduplicated keyword collection with context expansion),               *)
(* collect_users.py (breadth-first user expansion) and                     *)
(* step5_content_analysis.py (retried model call, keyword parsing).        *)
(*                                                                         *)
(* Python values are tagged records: None, int n, str s (an opaque string), *)
(* text cs (a string the program takes apart, held as its characters),     *)
(* dict d and list l.  A dict is a function from its keys to tagged values. *)
(***************************************************************************)
EXTENDS Integers, Sequences, FiniteSets, TLC

VARIABLES
    posts,        \* build_networks.main: contents of data/posts.json
    users,        \* build_networks.main: contents of data/users.json
    user_edges,   \* build_networks.main: contents of data/user_edges.json, or None
    G_info,       \* build_networks.main: the diffusion graph
    G_friend,     \* build_networks.main: the friendship graph
    added,        \* build_friendship: the counter of hint edges added
    fallback,     \* build_friendship: whether the branch at line 141 was taken
    handed,       \* the graphs passed to write_gexf / write_csvs so far
    csv_out,      \* the rows written by write_csvs
    pc,           \* position in build_networks.main
    out,          \* collect_with_expansion: the collected records
    seen,         \* collect_with_expansion: the identifiers admitted so far
    tag,          \* collect_with_expansion: index into HASHTAGS
    max_id,       \* collect_with_expansion: the pagination cursor
    page,         \* collect_with_expansion: the current hashtag page
    seed_i,       \* collect_with_expansion: index of the seed in page
    ctx,          \* what _expand_context has still to yield for the seed
    ctx_raised,   \* whether the latest status_context call raised
    context_added,\* collect_with_expansion: context posts admitted for the seed
    added_seed,   \* collect_with_expansion: the return of _add_status(seed, ...)
    last_add,     \* the latest _add_status call: its argument, its return, a call parity
    fetches,      \* number of timeline_hashtag calls made (bounded by MaxFetches)
    final_posts,  \* collect_keyword_posts.main: the trimmed list that is saved
    cpc,          \* position in collect_keyword_posts.main
    content_posts,\* step5 main: the posts load_posts returned, cut to the limit
    post_i,       \* step5 main: index of the post the for loop is at
    attempts,     \* call_llm: attempts made for the current post
    raw,          \* step5 main: what call_llm returned for the current post
    rows,         \* step5 main: the rows built so far
    error,        \* step5 main: the exception that ended the run, if any
    saved_rows,   \* the rows written to content/keywords.jsonl
    kpc,          \* position in step5_content_analysis.main
    start_accounts,\* expand_users: the resolved seed accounts
    seen_ids,     \* expand_users: the identifiers met so far
    queue,        \* expand_users: the accounts still to expand
    users_out,    \* expand_users: the local list out
    enqueued,     \* every identifier appended to queue, in order
    api_calls,    \* number of follower/following calls made
    api_failed,   \* whether a follower/following call has raised
    cur,          \* expand_users: the account popped from the queue
    returned,     \* what expand_users returned
    upc           \* position in expand_users

netvars == <<posts, users, user_edges, G_info, G_friend, added, fallback,
             handed, csv_out, pc>>

colvars == <<out, seen, tag, max_id, page, seed_i, ctx, ctx_raised, context_added, added_seed,
             last_add, fetches, final_posts, cpc>>

contvars == <<content_posts, post_i, attempts, raw, rows, error, saved_rows, kpc>>

uservars == <<start_accounts, seen_ids, queue, users_out,
              enqueued, api_calls, api_failed, cur, returned, upc>>

vars == <<netvars, colvars, contvars, uservars>>

\* the variables a step of build_networks leaves alone
outside_net == <<colvars, contvars, uservars>>
\* the variables a step of collect_keyword_posts leaves alone
outside_col == <<netvars, contvars, uservars>>
\* the variables a step of step5_content_analysis leaves alone
outside_content == <<netvars, colvars, uservars>>
\* the variables a step of collect_users leaves alone
outside_users == <<netvars, colvars, contvars>>

-----------------------------------------------------------------------------
(* Bounds of the model *)

MaxPosts == 3
MaxUsers == 3
MaxHints == 1

\* collect_keyword_posts, scaled down
TARGET_COUNT == 2
BATCH_LIMIT == 2
MAX_CONTEXT_POSTS_PER_SEED == 1
NumHashtags == 2
MaxFetches == 3

\* step5_content_analysis: posts in data/posts.json
MaxContentPosts == 2

\* collect_users, scaled down
MaxAccounts == 4
TARGET_USERS == 3

-----------------------------------------------------------------------------
(* Python values *)

None == [t |-> "none"]
PyInt(n) == [t |-> "int", v |-> n]
PyStr(s) == [t |-> "str", v |-> s]

DigitChars == <<"0", "1", "2", "3", "4", "5", "6", "7", "8", "9">>

RECURSIVE Decimal(_)
Decimal(n) ==
    IF n < 10 THEN DigitChars[n + 1]
    ELSE Decimal(n \div 10) \o DigitChars[(n % 10) + 1]

\* str(x) on an identifier: the text of a str is itself, an int is printed in
\* decimal, None prints as "None".  The result is a TLA+ string.
str(x) ==
    CASE x.t = "str" -> x.v
      [] x.t = "int" -> Decimal(x.v)
      [] OTHER -> "None"

PyText(cs) == [t |-> "text", v |-> cs]
PyDict(d) == [t |-> "dict", v |-> d]
PyList(l) == [t |-> "list", v |-> l]
PyBool(b) == [t |-> "bool", v |-> b]

\* Python truthiness of a value
Truthy(x) ==
    CASE x.t = "none" -> FALSE
      [] x.t = "int" -> x.v # 0
      [] x.t = "str" -> x.v # ""
      [] x.t = "text" -> x.v # <<>>
      [] x.t = "dict" -> DOMAIN x.v # {}
      [] x.t = "list" -> x.v # <<>>
      [] x.t = "bool" -> x.v
      [] OTHER -> TRUE

\* a or b
PyOr(a, b) == IF Truthy(a) THEN a ELSE b

Range(s) == {s[i] : i \in 1..Len(s)}

\* d.get(k): the value at k, None when the key is missing
DictGet(d, k) == IF k \in DOMAIN d THEN d[k] ELSE None

\* d[k] = v on a dict
DictSet(d, k, v) == [x \in (DOMAIN d) \cup {k} |-> IF x = k THEN v ELSE d[x]]

EmptyDict == [x \in {} |-> None]

-----------------------------------------------------------------------------
(* networkx graphs: nodes in insertion order with an attribute bag each,    *)
(* edges keyed by <<u, v>> (directed) or by {u, v} (undirected).            *)

EmptyGraph(isDirected) ==
    [directed |-> isDirected, nodes |-> <<>>, nattr |-> EmptyDict,
     edges |-> <<>>, eattr |-> EmptyDict]

EdgeKey(G, u, v) == IF G.directed THEN <<u, v>> ELSE {u, v}

\* G.add_node(n, **attrs): a new node is appended; attrs update the bag
add_node(G, n, attrs) ==
    LET old == IF n \in Range(G.nodes) THEN G.nattr[n] ELSE EmptyDict
        new == [k \in (DOMAIN old) \cup (DOMAIN attrs) |->
                   IF k \in DOMAIN attrs THEN attrs[k] ELSE old[k]]
    IN [G EXCEPT !.nodes = IF n \in Range(G.nodes) THEN @ ELSE Append(@, n),
                 !.nattr = DictSet(G.nattr, n, new)]

\* G.add_edge(u, v, **attrs): missing endpoints become nodes with an empty
\* bag; an edge already present keeps its place and has its bag updated
add_edge(G, u, v, attrs) ==
    LET G1 == IF u \in Range(G.nodes) THEN G ELSE add_node(G, u, EmptyDict)
        G2 == IF v \in Range(G1.nodes) THEN G1 ELSE add_node(G1, v, EmptyDict)
        e == EdgeKey(G, u, v)
        old == IF e \in Range(G.edges) THEN G.eattr[e] ELSE EmptyDict
        new == [k \in (DOMAIN old) \cup (DOMAIN attrs) |->
                   IF k \in DOMAIN attrs THEN attrs[k] ELSE old[k]]
    IN [G2 EXCEPT !.edges = IF e \in Range(G.edges) THEN @ ELSE Append(@, e),
                  !.eattr = DictSet(G.eattr, e, new)]

number_of_edges(G) == Len(G.edges)

-----------------------------------------------------------------------------
(* Information diffusion network *)

\* ",".join(l) for a list of opaque strings
RECURSIVE Joined(_)
Joined(l) ==
    IF l = <<>> THEN ""
    ELSE IF Len(l) = 1 THEN l[1]
    ELSE l[1] \o "," \o Joined(Tail(l))

\* the node attributes of one post (lines 60-70); tags is a joined string and
\* is never None, every other value is whatever p.get returns
PostAttrs(p) ==
    [k \in {"author", "language", "replies", "reblogs", "favourites", "url", "tags"} |->
        CASE k = "author" ->
                 LET a == PyOr(DictGet(p, "account"), PyDict(EmptyDict))
                 IN DictGet(a.v, "acct")
          [] k = "language" -> DictGet(p, "language")
          [] k = "replies" -> DictGet(p, "replies_count")
          [] k = "reblogs" -> DictGet(p, "reblogs_count")
          [] k = "favourites" -> DictGet(p, "favourites_count")
          [] k = "url" -> DictGet(p, "url")
          [] OTHER -> PyStr(Joined(PyOr(DictGet(p, "tags"), PyList(<<>>)).v))]

\* first loop (lines 58-70): every post becomes a node
RECURSIVE AddPostNodes(_, _, _)
AddPostNodes(G, ps, i) ==
    IF i > Len(ps) THEN G
    ELSE AddPostNodes(add_node(G, str(ps[i]["id"]), PostAttrs(ps[i])), ps, i + 1)

\* line 72
present(ps) == {str(ps[i]["id"]) : i \in 1..Len(ps)}

\* the reply edge added without the membership test of line 81
ReplyEdge_unchecked(G, p, pres) ==
    LET r == DictGet(p, "in_reply_to_id")
    IN IF r # None
       THEN add_edge(G, str(r), str(p["id"]), [kind |-> PyStr("reply")])
       ELSE G

\* lines 77-82: the reply edge of one post
ReplyEdge(G, p, pres) ==
    LET r == DictGet(p, "in_reply_to_id")
    IN IF r # None /\ str(r) \in pres
       THEN add_edge(G, str(r), str(p["id"]), [kind |-> PyStr("reply")])
       ELSE G

\* the boost edge tried only when the post is no reply (elif for if)
BoostEdge_elif(G, p, pres) ==
    LET b == DictGet(p, "reblog_of_id")
    IN IF DictGet(p, "in_reply_to_id") = None /\ b # None /\ str(b) \in pres
       THEN add_edge(G, str(b), str(p["id"]), [kind |-> PyStr("boost")])
       ELSE G

\* lines 84-89: the boost edge of one post
BoostEdge(G, p, pres) ==
    LET b == DictGet(p, "reblog_of_id")
    IN IF b # None /\ str(b) \in pres
       THEN add_edge(G, str(b), str(p["id"]), [kind |-> PyStr("boost")])
       ELSE G

\* second loop (lines 74-89)
RECURSIVE AddPostEdges(_, _, _, _)
AddPostEdges(G, ps, pres, i) ==
    IF i > Len(ps) THEN G
    ELSE AddPostEdges(BoostEdge(ReplyEdge(G, ps[i], pres), ps[i], pres), ps, pres, i + 1)

build_information_diffusion(ps) ==
    AddPostEdges(AddPostNodes(EmptyGraph(TRUE), ps, 1), ps, present(ps), 1)

-----------------------------------------------------------------------------
(* Friendship graph *)

AT == "@"

LowerChar(c) ==
    CASE c = "A" -> "a"
      [] c = "B" -> "b"
      [] c = "U" -> "u"
      [] c = "X" -> "x"
      [] c = "Y" -> "y"
      [] OTHER -> c

\* s.lower()
lower(cs) == [i \in 1..Len(cs) |-> LowerChar(cs[i])]

\* s.split("@", 1)[1]: what follows the first "@"
AfterFirstAt(cs) ==
    LET k == CHOOSE i \in 1..Len(cs) : cs[i] = AT /\ \A j \in 1..(i - 1) : cs[j] # AT
    IN SubSeq(cs, k + 1, Len(cs))

UNKNOWN == <<"u", "n", "k", "n", "o", "w", "n">>
DEFAULT_DOMAIN ==
    <<"m", "a", "s", "t", "o", "d", "o", "n", ".", "s", "o", "c", "i", "a", "l">>

domain_from_acct(acct) ==
    IF ~Truthy(acct) THEN PyText(UNKNOWN)
    ELSE IF AT \in Range(acct.v) THEN PyText(lower(AfterFirstAt(acct.v)))
    ELSE PyText(DEFAULT_DOMAIN)

\* the node attributes of one user (lines 113-122)
UserAttrs(u) ==
    [k \in {"acct", "username", "display_name", "url", "followers", "following",
            "statuses", "domain"} |->
        CASE k = "acct" -> DictGet(u, "acct")
          [] k = "username" -> DictGet(u, "username")
          [] k = "display_name" -> DictGet(u, "display_name")
          [] k = "url" -> DictGet(u, "url")
          [] k = "followers" -> DictGet(u, "followers_count")
          [] k = "following" -> DictGet(u, "following_count")
          [] k = "statuses" -> DictGet(u, "statuses_count")
          [] OTHER -> domain_from_acct(DictGet(u, "acct"))]

\* first loop (lines 107-122): st = [G, id_by_acct]
RECURSIVE AddUserNodes(_, _, _)
AddUserNodes(st, us, i) ==
    IF i > Len(us) THEN st
    ELSE LET uid == str(us[i]["id"])
             acct == DictGet(us[i], "acct")
         IN AddUserNodes([G |-> add_node(st.G, uid, UserAttrs(us[i])),
                          id_by_acct |-> DictSet(st.id_by_acct, acct, PyStr(uid))],
                         us, i + 1)

\* lines 129-130: one side of a hint, by identifier field or by handle lookup
ResolveSide(e, id_by_acct, idKey, acctKey) ==
    PyOr(DictGet(e, idKey), DictGet(id_by_acct, DictGet(e, acctKey)))

\* e.get("reason", "follow")
HintReason(e) == IF "reason" \in DOMAIN e THEN e["reason"] ELSE PyStr("follow")

\* lines 131-134: the hint is skipped
HintSkipped(u, v) == ~Truthy(u) \/ ~Truthy(v) \/ u = v

\* one pass of the hint loop (lines 128-137): st = [G, added]
ApplyHint(st, e, id_by_acct) ==
    LET u == ResolveSide(e, id_by_acct, "src_id", "src_acct")
        v == ResolveSide(e, id_by_acct, "dst_id", "dst_acct")
    IN IF HintSkipped(u, v) THEN st
       ELSE [G |-> add_edge(st.G, str(u), str(v), [reason |-> HintReason(e)]),
             added |-> st.added + 1]

RECURSIVE ApplyHints(_, _, _, _)
ApplyHints(st, es, id_by_acct, i) ==
    IF i > Len(es) THEN st
    ELSE ApplyHints(ApplyHint(st, es[i], id_by_acct), es, id_by_acct, i + 1)

\* lines 142-144: by_domain as the domains in order of first appearance and
\* the list of node ids of each
RECURSIVE GroupByDomain(_, _, _)
GroupByDomain(G, acc, i) ==
    IF i > Len(G.nodes) THEN acc
    ELSE LET n == G.nodes[i]
             data == G.nattr[n]
             d == IF "domain" \in DOMAIN data THEN data["domain"] ELSE PyText(UNKNOWN)
         IN GroupByDomain(G,
                [keys |-> IF d \in Range(acc.keys) THEN acc.keys ELSE Append(acc.keys, d),
                 ids |-> DictSet(acc.ids, d,
                            Append(IF d \in DOMAIN acc.ids THEN acc.ids[d] ELSE <<>>, n))],
                i + 1)

by_domain(G) == GroupByDomain(G, [keys |-> <<>>, ids |-> EmptyDict], 1)

\* every member linked to the first one instead of to its predecessor
RECURSIVE LinkBucket_star(_, _, _)
LinkBucket_star(G, ids, i) ==
    IF i > Len(ids) - 1 THEN G
    ELSE LinkBucket_star(add_edge(G, ids[1], ids[i + 1], [reason |-> PyStr("same_domain")]),
                         ids, i + 1)

\* lines 147-148: range(len(ids) - 1)
RECURSIVE LinkBucket(_, _, _)
LinkBucket(G, ids, i) ==
    IF i > Len(ids) - 1 THEN G
    ELSE LinkBucket(add_edge(G, ids[i], ids[i + 1], [reason |-> PyStr("same_domain")]),
                    ids, i + 1)

\* lines 145-148
RECURSIVE LinkBuckets(_, _, _)
LinkBuckets(G, bd, j) ==
    IF j > Len(bd.keys) THEN G
    ELSE LinkBuckets(LinkBucket(G, bd.ids[bd.keys[j]], 1), bd, j + 1)

\* the fallback taken only when no hints were supplied (else for the test)
FallbackTaken_else(G, es) == ~Truthy(es)

\* line 141: the fallback is taken when the graph has no edge
FallbackTaken(G, es) == number_of_edges(G) = 0

\* the function; the result carries the graph with the locals the claims
\* speak of: added, and whether the fallback branch ran
build_friendship(us, es) ==
    LET s1 == AddUserNodes([G |-> EmptyGraph(FALSE), id_by_acct |-> EmptyDict], us, 1)
        s2 == IF Truthy(es)
              THEN ApplyHints([G |-> s1.G, added |-> 0], es.v, s1.id_by_acct, 1)
              ELSE [G |-> s1.G, added |-> 0]
        fb == FallbackTaken(s2.G, es)
    IN [G |-> IF fb THEN LinkBuckets(s2.G, by_domain(s2.G), 1) ELSE s2.G,
        added |-> s2.added,
        fallback |-> fb]

-----------------------------------------------------------------------------
(* Export *)

\* sorted(keys): attribute names in alphabetical order
AttrNames ==
    <<"acct", "author", "display_name", "domain", "favourites", "followers",
      "following", "kind", "language", "reason", "reblogs", "replies",
      "statuses", "tags", "url", "username">>

\* sorted(S) for a set of attribute names: the names of S in alphabetical
\* order, each once
InS(S, k) == k \in S
sorted(S) == SelectSeq(AttrNames, LAMBDA k : InS(S, k))

\* what csv.writer writes for a value: None becomes the empty cell
Cell(x) == IF x = None THEN PyStr("") ELSE x

\* lines 164-167 and 174-177: the union of the keys of all bags
UnionKeys(bags) == UNION {DOMAIN b : b \in bags}

NodeBags(G) == {G.nattr[G.nodes[i]] : i \in 1..Len(G.nodes)}
EdgeBags(G) == {G.eattr[G.edges[i]] : i \in 1..Len(G.edges)}

node_attrs(G) == sorted(UnionKeys(NodeBags(G)))
edge_attrs(G) == sorted(UnionKeys(EdgeBags(G)))

\* the row built from the node's own keys only
NodeRow_ownKeys(n, d, cols) ==
    LET own == SelectSeq(cols, LAMBDA k : InS(DOMAIN d, k))
    IN <<PyStr(n)>> \o [i \in 1..Len(own) |-> Cell(d[own[i]])]

\* line 170: the row of one node
NodeRow(n, d, cols) == <<PyStr(n)>> \o [i \in 1..Len(cols) |-> Cell(DictGet(d, cols[i]))]

\* line 180: the row of one edge; ends = <<u, v>>
EdgeRow(ends, d, cols) ==
    <<PyStr(ends[1]), PyStr(ends[2])>> \o [i \in 1..Len(cols) |-> Cell(DictGet(d, cols[i]))]

\* position of a node in insertion order
Rank2(G, n) == CHOOSE i \in 1..Len(G.nodes) : G.nodes[i] = n

\* the two ends of an edge as G.edges(data=True) reports them
EdgeEnds(G, e) ==
    IF G.directed THEN e
    ELSE LET u == CHOOSE x \in e : \A y \in e : Rank2(G, x) <= Rank2(G, y)
             v == IF Cardinality(e) = 1 THEN u ELSE CHOOSE y \in e : y # u
         IN <<u, v>>

write_csvs(G) ==
    LET ncols == node_attrs(G)
        ecols == edge_attrs(G)
    IN [node_header |-> <<"id">> \o ncols,
        node_rows |-> [i \in 1..Len(G.nodes) |->
                          NodeRow(G.nodes[i], G.nattr[G.nodes[i]], ncols)],
        edge_header |-> <<"source", "target">> \o ecols,
        edge_rows |-> [i \in 1..Len(G.edges) |->
                          EdgeRow(EdgeEnds(G, G.edges[i]), G.eattr[G.edges[i]], ecols)]]

-----------------------------------------------------------------------------
(* Inputs of build_networks.main *)

PostIds == {PyInt(1), PyInt(2), PyStr("1")}
ReplyRefs == {None, PyInt(2), PyStr("1")}
ReblogRefs == {None, PyInt(1), PyInt(2)}

\* a post as collect_keyword_posts writes it; a bare post lacks every
\* optional field, a full one carries them all
MkPost(id, r, b, full) ==
    IF full
    THEN [k \in {"id", "in_reply_to_id", "reblog_of_id", "account", "language",
                 "replies_count", "reblogs_count", "favourites_count", "url", "tags"} |->
            CASE k = "id" -> id
              [] k = "in_reply_to_id" -> r
              [] k = "reblog_of_id" -> b
              [] k = "account" -> PyDict([acct |-> PyStr("bob")])
              [] k = "language" -> PyStr("en")
              [] k = "url" -> PyStr("https://m/p")
              [] k = "tags" -> PyList(<<"ai", "llm">>)
              [] OTHER -> PyInt(0)]
    ELSE [k \in {"id", "in_reply_to_id", "reblog_of_id"} |->
            CASE k = "id" -> id
              [] k = "in_reply_to_id" -> r
              [] OTHER -> b]

Posts == {MkPost(id, r, b, full) : id \in PostIds, r \in ReplyRefs, b \in ReblogRefs,
                                   full \in BOOLEAN}

\* the collectors admit each identifier once: the records of a file have
\* pairwise distinct "id" values (1 and "1" are distinct values)
DistinctIds(l) == \A i, j \in 1..Len(l) : i # j => l[i]["id"] # l[j]["id"]

PostLists == UNION {{l \in [1..n -> Posts] : DistinctIds(l)} : n \in 0..MaxPosts}

UserIds == {PyInt(1), PyInt(2), PyInt(3)}

Accts == {None,
          PyText(<<"u">>),
          PyText(<<"a", "@", "x">>),
          PyText(<<"b", "@", "X">>)}

\* a user as collect_users writes it: every field present, acct possibly null
MkUser(id, acct) ==
    [k \in {"id", "acct", "username", "display_name", "url", "followers_count",
            "following_count", "statuses_count"} |->
        CASE k = "id" -> id
          [] k = "acct" -> acct
          [] k \in {"username", "display_name"} -> PyStr("name")
          [] k = "url" -> PyStr("https://m/u")
          [] OTHER -> PyInt(0)]

Users == {MkUser(id, acct) : id \in UserIds, acct \in Accts}

UserLists == UNION {{l \in [1..n -> Users] : DistinctIds(l)} : n \in 0..MaxUsers}

\* one side of a hint: an identifier field, a handle field, or neither
HintSides == {[id |-> None, acct |-> None],
              [id |-> PyInt(1), acct |-> None],
              [id |-> PyStr("7"), acct |-> None],
              [id |-> None, acct |-> PyText(<<"a", "@", "x">>)]}

MkHint(s, d, reason) ==
    LET keys == (IF s.id # None THEN {"src_id"} ELSE {})
                \cup (IF s.acct # None THEN {"src_acct"} ELSE {})
                \cup (IF d.id # None THEN {"dst_id"} ELSE {})
                \cup (IF d.acct # None THEN {"dst_acct"} ELSE {})
                \cup (IF reason # None THEN {"reason"} ELSE {})
    IN [k \in keys |->
          CASE k = "src_id" -> s.id
            [] k = "src_acct" -> s.acct
            [] k = "dst_id" -> d.id
            [] k = "dst_acct" -> d.acct
            [] OTHER -> reason]

\* the hints in which at least one side names user 1 or the handle a@x; one
\* of them also in a variant that carries a reason
Hints ==
    LET named == {x \in HintSides : x.id = PyInt(1) \/ x.acct # None}
    IN {MkHint(s, d, None) : s \in named, d \in HintSides}
       \cup {MkHint(s, d, None) : s \in HintSides, d \in named}
       \cup {MkHint([id |-> PyInt(1), acct |-> None],
                    [id |-> None, acct |-> PyText(<<"a", "@", "x">>)], PyStr("mutual"))}

\* user_edges: None when the file is missing or unreadable, else a list
HintLists == {None} \cup {PyList(l) : l \in UNION {[1..n -> Hints] : n \in 0..MaxHints}}

-----------------------------------------------------------------------------
(* build_networks.main, followed for one graph at a time: the two graphs    *)
(* share no state, each is built, handed to write_gexf, then to write_csvs  *)

\* collect_keyword_posts is a separate script: it is not running
CollectorIdle ==
    /\ out = <<>>
    /\ seen = {}
    /\ tag = 1
    /\ max_id = None
    /\ page = <<>>
    /\ seed_i = 1
    /\ ctx = <<>>
    /\ ctx_raised = FALSE
    /\ context_added = 0
    /\ added_seed = FALSE
    /\ last_add = [n |-> 0, s |-> None, ret |-> FALSE]
    /\ fetches = 0
    /\ final_posts = <<>>
    /\ cpc = "idle"

\* step5_content_analysis is a separate script: it is not running
ContentIdle ==
    /\ content_posts = <<>>
    /\ post_i = 1
    /\ attempts = 0
    /\ raw = <<>>
    /\ rows = <<>>
    /\ error = "none"
    /\ saved_rows = <<>>
    /\ kpc = "idle"

\* collect_users is a separate script: it is not running
UsersIdle ==
    /\ start_accounts = <<>>
    /\ seen_ids = {}
    /\ queue = <<>>
    /\ users_out = <<>>
    /\ enqueued = <<>>
    /\ api_calls = 0
    /\ api_failed = FALSE
    /\ cur = None
    /\ returned = <<>>
    /\ upc = "idle"

NoCsv == [node_header |-> <<>>, node_rows |-> <<>>, edge_header |-> <<>>, edge_rows |-> <<>>]

HasNullAttr(G) ==
    \/ \E b \in NodeBags(G) : \E k \in DOMAIN b : b[k] = None
    \/ \E b \in EdgeBags(G) : \E k \in DOMAIN b : b[k] = None

InitDiffusion ==
    /\ posts \in PostLists
    /\ users = <<>>
    /\ user_edges = None
    /\ G_info = EmptyGraph(TRUE)
    /\ G_friend = EmptyGraph(FALSE)
    /\ added = 0
    /\ fallback = FALSE
    /\ handed = {}
    /\ csv_out = NoCsv
    /\ pc = "build_info"
    /\ CollectorIdle
    /\ ContentIdle
    /\ UsersIdle

InitFriendship ==
    /\ posts = <<>>
    /\ users \in UserLists
    /\ user_edges \in HintLists
    /\ G_info = EmptyGraph(TRUE)
    /\ G_friend = EmptyGraph(FALSE)
    /\ added = 0
    /\ fallback = FALSE
    /\ handed = {}
    /\ csv_out = NoCsv
    /\ pc = "build_friend"
    /\ CollectorIdle
    /\ ContentIdle
    /\ UsersIdle

\* line 198
BuildInfo ==
    /\ pc = "build_info"
    /\ G_info' = build_information_diffusion(posts)
    /\ pc' = "gexf_info"
    /\ UNCHANGED <<posts, users, user_edges, G_friend, added, fallback, handed, csv_out>>
    /\ UNCHANGED outside_net

\* line 199
BuildFriend ==
    /\ pc = "build_friend"
    /\ LET r == build_friendship(users, user_edges)
       IN /\ G_friend' = r.G
          /\ added' = r.added
          /\ fallback' = r.fallback
    /\ pc' = "gexf_friend"
    /\ UNCHANGED <<posts, users, user_edges, G_info, handed, csv_out>>
    /\ UNCHANGED outside_net

\* write_gexf (lines 153-155): the graph goes to nx.write_gexf as it is
write_gexf(G, here, next) ==
    /\ pc = here
    /\ handed' = handed \cup {G}
    /\ pc' = next
    /\ UNCHANGED <<posts, users, user_edges, G_info, G_friend, added, fallback, csv_out>>
    /\ UNCHANGED outside_net

\* nx.write_gexf may reject a graph that carries a None attribute
write_gexf_raises(G, here) ==
    /\ pc = here
    /\ HasNullAttr(G)
    /\ handed' = handed \cup {G}
    /\ pc' = "raised"
    /\ UNCHANGED <<posts, users, user_edges, G_info, G_friend, added, fallback, csv_out>>
    /\ UNCHANGED outside_net

\* lines 206-207
WriteCsvs(G, here) ==
    /\ pc = here
    /\ handed' = handed \cup {G}
    /\ csv_out' = write_csvs(G)
    /\ pc' = "done"
    /\ UNCHANGED <<posts, users, user_edges, G_info, G_friend, added, fallback>>
    /\ UNCHANGED outside_net

\* line 202
WriteGexfInfo == write_gexf(G_info, "gexf_info", "csv_info")
WriteGexfInfoRaises == write_gexf_raises(G_info, "gexf_info")
\* line 203
WriteGexfFriend == write_gexf(G_friend, "gexf_friend", "csv_friend")
WriteGexfFriendRaises == write_gexf_raises(G_friend, "gexf_friend")
\* line 206
WriteCsvsInfo == WriteCsvs(G_info, "csv_info")
\* line 207
WriteCsvsFriend == WriteCsvs(G_friend, "csv_friend")

NextDiffusion ==
    \/ BuildInfo
    \/ WriteGexfInfo
    \/ WriteGexfInfoRaises
    \/ WriteCsvsInfo

NextFriendship ==
    \/ BuildFriend
    \/ WriteGexfFriend
    \/ WriteGexfFriendRaises
    \/ WriteCsvsFriend

SpecDiffusion == InitDiffusion /\ [][NextDiffusion]_vars
SpecFriendship == InitFriendship /\ [][NextFriendship]_vars

-----------------------------------------------------------------------------
(* collect_keyword_posts: deduplicated collection with context expansion *)

\* the buffer is half the target, as 250 is of 500 (lines 28-31)
BUFFER == TARGET_COUNT \div 2

want == TARGET_COUNT + BUFFER

\* the server holds one status more than the collector wants
MaxStatusId == want + 1
StatusIds == 1..MaxStatusId

\* a thread context can hold one status more than the per-seed cap admits
MaxContextLen == MAX_CONTEXT_POSTS_PER_SEED + 1

\* the status the server holds under an identifier: 2 is a reply to 1,
\* 3 is a boost of 1, the others are original posts
StatusOf(i) ==
    [k \in {"id", "language", "in_reply_to_id", "reblog"} |->
        CASE k = "id" -> PyInt(i)
          [] k = "language" -> IF i = 4 THEN None ELSE PyStr("en")
          [] k = "in_reply_to_id" -> IF i = 2 THEN PyInt(1) ELSE None
          [] OTHER -> IF i = 3 THEN PyDict([id |-> PyInt(1)]) ELSE None]

Statuses == {StatusOf(i) : i \in StatusIds}

\* lists of statuses by identifier
StatusList(ids) == [i \in 1..Len(ids) |-> StatusOf(ids[i])]

Descending(ids) == \A i \in 1..(Len(ids) - 1) : ids[i] > ids[i + 1]
Ascending(ids) == \A i \in 1..(Len(ids) - 1) : ids[i] < ids[i + 1]

\* what timeline_hashtag can return: at most BATCH_LIMIT statuses, newest
\* first, all older than the cursor max_id when one is given, or nothing
Pages(cursor) ==
    UNION {{StatusList(ids) :
               ids \in {l \in [1..n -> StatusIds] :
                           /\ Descending(l)
                           /\ cursor # None => \A i \in 1..n : l[i] < cursor.v}} :
           n \in 0..BATCH_LIMIT}

\* what status_context can return for a status: its ancestors followed by
\* its descendants, oldest first, the status itself not among them
Contexts(sid) ==
    UNION {{StatusList(ids) :
               ids \in {l \in [1..n -> StatusIds] :
                           Ascending(l) /\ \A i \in 1..n : PyInt(l[i]) # sid}} :
           n \in 0..MaxContextLen}

\* lines 41-68, for the fields the later steps read
normalize_status(st) ==
    [k \in {"id", "language", "in_reply_to_id", "reblog_of_id"} |->
        CASE k = "id" -> st["id"]
          [] k = "language" -> DictGet(st, "language")
          [] k = "in_reply_to_id" -> DictGet(st, "in_reply_to_id")
          [] OTHER -> DictGet(PyOr(DictGet(st, "reblog"), PyDict(EmptyDict)).v, "id")]

\* _add_status without seen.add(sid)
_add_status_forgets(st, sn, o) ==
    LET sid == st["id"]
    IN IF sid \in sn
       THEN [ret |-> FALSE, seen |-> sn, out |-> o]
       ELSE [ret |-> TRUE, seen |-> sn, out |-> Append(o, normalize_status(st))]

\* _add_status with out.insert(0, ...) for out.append(...)
_add_status_prepends(st, sn, o) ==
    LET sid == st["id"]
    IN IF sid \in sn
       THEN [ret |-> FALSE, seen |-> sn, out |-> o]
       ELSE [ret |-> TRUE, seen |-> sn \cup {sid}, out |-> <<normalize_status(st)>> \o o]

\* lines 71-78: the return value with the set and the list after the call
_add_status(st, sn, o) ==
    LET sid == st["id"]
    IN IF sid \in sn
       THEN [ret |-> FALSE, seen |-> sn, out |-> o]
       ELSE [ret |-> TRUE, seen |-> sn \cup {sid}, out |-> Append(o, normalize_status(st))]

\* a post that has a parent reference (lines 158 and 164)
IsConnected(p) ==
    Truthy(DictGet(p, "in_reply_to_id")) \/ Truthy(DictGet(p, "reblog_of_id"))
NotConnected(p) == ~IsConnected(p)

Take(l, n) == SubSeq(l, 1, IF n < Len(l) THEN n ELSE Len(l))

\* lines 152-165
_prefer_connected(ps, final_n) ==
    LET connected == SelectSeq(ps, IsConnected)
        others == SelectSeq(ps, NotConnected)
    IN IF Len(connected) >= final_n
       THEN Take(connected, final_n)
       ELSE connected \o Take(others, final_n - Len(connected))

InitCollect ==
    /\ posts = <<>>
    /\ users = <<>>
    /\ user_edges = None
    /\ G_info = EmptyGraph(TRUE)
    /\ G_friend = EmptyGraph(FALSE)
    /\ added = 0
    /\ fallback = FALSE
    /\ handed = {}
    /\ csv_out = NoCsv
    /\ pc = "idle"
    /\ out = <<>>
    /\ seen = {}
    /\ tag = 1
    /\ max_id = None
    /\ page = <<>>
    /\ seed_i = 1
    /\ ctx = <<>>
    /\ ctx_raised = FALSE
    /\ context_added = 0
    /\ added_seed = FALSE
    /\ last_add = [n |-> 0, s |-> None, ret |-> FALSE]
    /\ fetches = 0
    /\ final_posts = <<>>
    /\ cpc = "for_tag"
    /\ ContentIdle
    /\ UsersIdle

\* lines 112-114: the next hashtag, or the end of the for loop
ForTag ==
    /\ cpc = "for_tag"
    /\ IF tag <= NumHashtags
       THEN /\ max_id' = None
            /\ cpc' = "while"
       ELSE /\ cpc' = "return"
            /\ UNCHANGED max_id
    /\ UNCHANGED <<out, seen, tag, page, seed_i, ctx, ctx_raised, context_added, added_seed,
                   last_add, fetches, final_posts>>
    /\ UNCHANGED outside_col

\* line 116: the while condition fails
WhileExit ==
    /\ cpc = "while"
    /\ Len(out) >= want
    /\ cpc' = "after_while"
    /\ UNCHANGED <<out, seen, tag, max_id, page, seed_i, ctx, ctx_raised, context_added,
                   added_seed, last_add, fetches, final_posts>>
    /\ UNCHANGED outside_col

\* lines 116-122: one page is fetched; an empty page ends the hashtag
FetchPage ==
    /\ cpc = "while"
    /\ Len(out) < want
    /\ fetches < MaxFetches
    /\ \E pg \in Pages(max_id) :
          /\ page' = pg
          /\ IF pg = <<>>
             THEN /\ cpc' = "after_while"
                  /\ UNCHANGED <<max_id, seed_i>>
             ELSE /\ max_id' = pg[Len(pg)]["id"]
                  /\ seed_i' = 1
                  /\ cpc' = "for_seed"
    /\ fetches' = fetches + 1
    /\ UNCHANGED <<out, seen, tag, ctx, ctx_raised, context_added, added_seed,
                   last_add, final_posts>>
    /\ UNCHANGED outside_col

\* line 117: timeline_hashtag raises; nothing catches it (lines 81-83, 173)
FetchPageRaises ==
    /\ cpc = "while"
    /\ Len(out) < want
    /\ fetches < MaxFetches
    /\ fetches' = fetches + 1
    /\ cpc' = "raised"
    /\ UNCHANGED <<out, seen, tag, max_id, page, seed_i, ctx, ctx_raised, context_added,
                   added_seed, last_add, final_posts>>
    /\ UNCHANGED outside_col

\* lines 124-126 and 144: the page is used up, or enough is held
SeedLoopEnd ==
    /\ cpc = "for_seed"
    /\ seed_i > Len(page) \/ Len(out) >= want
    /\ cpc' = "while"
    /\ UNCHANGED <<out, seen, tag, max_id, page, seed_i, ctx, ctx_raised, context_added,
                   added_seed, last_add, fetches, final_posts>>
    /\ UNCHANGED outside_col

\* lines 128-132 and 141: the seed is offered to _add_status
AdmitSeed ==
    /\ cpc = "for_seed"
    /\ seed_i <= Len(page)
    /\ Len(out) < want
    /\ LET r == _add_status(page[seed_i], seen, out)
       IN /\ out' = r.out
          /\ seen' = r.seen
          /\ added_seed' = r.ret
          /\ last_add' = [n |-> 1 - last_add.n, s |-> page[seed_i], ret |-> r.ret]
          /\ IF r.ret /\ Len(r.out) < want
             THEN /\ context_added' = 0
                  /\ cpc' = "expand"
                  /\ UNCHANGED seed_i
             ELSE /\ seed_i' = seed_i + 1
                  /\ cpc' = "for_seed"
                  /\ UNCHANGED context_added
    /\ UNCHANGED <<tag, max_id, page, ctx, ctx_raised, fetches, final_posts>>
    /\ UNCHANGED outside_col

\* lines 91-96: status_context answers
ExpandContext ==
    /\ cpc = "expand"
    /\ \E c \in Contexts(page[seed_i]["id"]) : ctx' = c
    /\ ctx_raised' = FALSE
    /\ cpc' = "for_ctx"
    /\ UNCHANGED <<out, seen, tag, max_id, page, seed_i, context_added, added_seed,
                   last_add, fetches, final_posts>>
    /\ UNCHANGED outside_col

\* lines 97-99: status_context raises, the generator yields nothing
ExpandContextFails ==
    /\ cpc = "expand"
    /\ ctx' = <<>>
    /\ ctx_raised' = TRUE
    /\ cpc' = "for_ctx"
    /\ UNCHANGED <<out, seen, tag, max_id, page, seed_i, context_added, added_seed,
                   last_add, fetches, final_posts>>
    /\ UNCHANGED outside_col

\* AdmitContext without the per-seed cap in the test of line 137
AdmitContext_uncapped ==
    /\ cpc = "for_ctx"
    /\ ctx # <<>>
    /\ LET r == _add_status(Head(ctx), seen, out)
           n == IF r.ret THEN context_added + 1 ELSE context_added
       IN /\ out' = r.out
          /\ seen' = r.seen
          /\ last_add' = [n |-> 1 - last_add.n, s |-> Head(ctx), ret |-> r.ret]
          /\ context_added' = n
          /\ IF r.ret /\ Len(r.out) >= want
             THEN /\ ctx' = <<>>
                  /\ seed_i' = seed_i + 1
                  /\ cpc' = "for_seed"
             ELSE /\ ctx' = Tail(ctx)
                  /\ UNCHANGED <<seed_i, cpc>>
    /\ UNCHANGED <<tag, max_id, page, ctx_raised, added_seed, fetches, final_posts>>
    /\ UNCHANGED outside_col

\* lines 134-138: one yielded status is offered to _add_status
AdmitContext ==
    /\ cpc = "for_ctx"
    /\ ctx # <<>>
    /\ LET r == _add_status(Head(ctx), seen, out)
           n == IF r.ret THEN context_added + 1 ELSE context_added
       IN /\ out' = r.out
          /\ seen' = r.seen
          /\ last_add' = [n |-> 1 - last_add.n, s |-> Head(ctx), ret |-> r.ret]
          /\ context_added' = n
          /\ IF r.ret /\ (n >= MAX_CONTEXT_POSTS_PER_SEED \/ Len(r.out) >= want)
             THEN /\ ctx' = <<>>
                  /\ seed_i' = seed_i + 1
                  /\ cpc' = "for_seed"
             ELSE /\ ctx' = Tail(ctx)
                  /\ UNCHANGED <<seed_i, cpc>>
    /\ UNCHANGED <<tag, max_id, page, ctx_raised, added_seed, fetches, final_posts>>
    /\ UNCHANGED outside_col

\* lines 134 and 141: the generator is exhausted
ContextEnd ==
    /\ cpc = "for_ctx"
    /\ ctx = <<>>
    /\ seed_i' = seed_i + 1
    /\ cpc' = "for_seed"
    /\ UNCHANGED <<out, seen, tag, max_id, page, ctx, ctx_raised, context_added, added_seed,
                   last_add, fetches, final_posts>>
    /\ UNCHANGED outside_col

\* lines 146-147 and 112: enough is held, or on to the next hashtag
AfterWhile ==
    /\ cpc = "after_while"
    /\ IF Len(out) >= want
       THEN /\ cpc' = "return"
            /\ UNCHANGED tag
       ELSE /\ tag' = tag + 1
            /\ cpc' = "for_tag"
    /\ UNCHANGED <<out, seen, max_id, page, seed_i, ctx, ctx_raised, context_added, added_seed,
                   last_add, fetches, final_posts>>
    /\ UNCHANGED outside_col

\* lines 149 and 173-181: the list is returned, trimmed and saved
TrimAndSave ==
    /\ cpc = "return"
    /\ final_posts' = _prefer_connected(out, TARGET_COUNT)
    /\ cpc' = "saved"
    /\ UNCHANGED <<out, seen, tag, max_id, page, seed_i, ctx, ctx_raised, context_added,
                   added_seed, last_add, fetches>>
    /\ UNCHANGED outside_col

NextCollect ==
    \/ ForTag
    \/ WhileExit
    \/ FetchPage
    \/ FetchPageRaises
    \/ SeedLoopEnd
    \/ AdmitSeed
    \/ ExpandContext
    \/ ExpandContextFails
    \/ AdmitContext
    \/ ContextEnd
    \/ AfterWhile
    \/ TrimAndSave

SpecCollect == InitCollect /\ [][NextCollect]_vars

-----------------------------------------------------------------------------
(* step5_content_analysis: keyword extraction with a retried model call *)

\* stop_after_attempt(5), line 60
MaxAttempts == 5

QUOTE == "\""

IsSpace(c) == c \in {" ", "\t", "\n"}

IsDigit(c) == c \in Range(DigitChars)

LowerLetters ==
    {"a", "b", "c", "d", "e", "f", "g", "h", "i", "j", "k", "l", "m",
     "n", "o", "p", "q", "r", "s", "t", "u", "v", "w", "x", "y", "z"}

\* json.loads, for documents made of objects, arrays, strings without
\* escapes, unsigned integers, true, false and null.  A parse step returns
\* the value with the position after it, or JsonFail for JSONDecodeError.
JsonFail == [ok |-> FALSE]
JsonOk(v, pos) == [ok |-> TRUE, v |-> v, pos |-> pos]

\* a JSON object: its members, and its keys in insertion order
JsonDict(d, ks) == [t |-> "dict", v |-> d, keys |-> ks]

\* the first position from i on that holds no whitespace
SkipWs(cs, i) ==
    LET stops == {j \in i..Len(cs) : ~IsSpace(cs[j])}
    IN IF stops = {} THEN Len(cs) + 1
       ELSE CHOOSE j \in stops : \A k \in stops : j <= k

\* the first position from i on that holds c, or 0
IndexFrom(cs, c, i) ==
    LET hits == {j \in i..Len(cs) : cs[j] = c}
    IN IF hits = {} THEN 0
       ELSE CHOOSE j \in hits : \A k \in hits : j <= k

\* cs[i] opens a string
ParseString(cs, i) ==
    LET j == IndexFrom(cs, QUOTE, i + 1)
    IN IF j = 0 THEN JsonFail
       ELSE JsonOk(PyText(SubSeq(cs, i + 1, j - 1)), j + 1)

DigitValue(c) == (CHOOSE n \in 1..10 : DigitChars[n] = c) - 1

RECURSIVE ParseDigits(_, _, _)
ParseDigits(cs, i, acc) ==
    IF i <= Len(cs) /\ IsDigit(cs[i])
    THEN ParseDigits(cs, i + 1, acc * 10 + DigitValue(cs[i]))
    ELSE JsonOk(PyInt(acc), i)

\* cs holds the word w at position i
ParseLiteral(cs, i, w, v) ==
    IF i + Len(w) - 1 <= Len(cs) /\ SubSeq(cs, i, i + Len(w) - 1) = w
    THEN JsonOk(v, i + Len(w))
    ELSE JsonFail

RECURSIVE ParseValue(_, _), ParseElems(_, _, _), ParseMembers(_, _, _, _)

ParseValue(cs, i0) ==
    LET i == SkipWs(cs, i0)
    IN IF i > Len(cs) THEN JsonFail
       ELSE CASE cs[i] = QUOTE -> ParseString(cs, i)
              [] IsDigit(cs[i]) -> ParseDigits(cs, i, 0)
              [] cs[i] = "n" -> ParseLiteral(cs, i, <<"n", "u", "l", "l">>, None)
              [] cs[i] = "t" -> ParseLiteral(cs, i, <<"t", "r", "u", "e">>, PyBool(TRUE))
              [] cs[i] = "f" ->
                    ParseLiteral(cs, i, <<"f", "a", "l", "s", "e">>, PyBool(FALSE))
              [] cs[i] = "[" ->
                    LET j == SkipWs(cs, i + 1)
                    IN IF j <= Len(cs) /\ cs[j] = "]"
                       THEN JsonOk(PyList(<<>>), j + 1)
                       ELSE ParseElems(cs, i + 1, <<>>)
              [] cs[i] = "{" ->
                    LET j == SkipWs(cs, i + 1)
                    IN IF j <= Len(cs) /\ cs[j] = "}"
                       THEN JsonOk(JsonDict(EmptyDict, <<>>), j + 1)
                       ELSE ParseMembers(cs, i + 1, EmptyDict, <<>>)
              [] OTHER -> JsonFail

\* the elements of an array from position i on, acc holding those before
ParseElems(cs, i, acc) ==
    LET r == ParseValue(cs, i)
    IN IF ~r.ok THEN JsonFail
       ELSE LET j == SkipWs(cs, r.pos)
            IN IF j > Len(cs) THEN JsonFail
               ELSE IF cs[j] = "," THEN ParseElems(cs, j + 1, Append(acc, r.v))
               ELSE IF cs[j] = "]" THEN JsonOk(PyList(Append(acc, r.v)), j + 1)
               ELSE JsonFail

\* the members of an object from position i on; a repeated key keeps its
\* place and takes the later value
ParseMembers(cs, i, d, ks) ==
    LET k == SkipWs(cs, i)
    IN IF k > Len(cs) \/ cs[k] # QUOTE THEN JsonFail
       ELSE LET key == ParseString(cs, k)
            IN IF ~key.ok THEN JsonFail
               ELSE LET c == SkipWs(cs, key.pos)
                    IN IF c > Len(cs) \/ cs[c] # ":" THEN JsonFail
                       ELSE LET r == ParseValue(cs, c + 1)
                            IN IF ~r.ok THEN JsonFail
                               ELSE LET j == SkipWs(cs, r.pos)
                                        d2 == DictSet(d, key.v.v, r.v)
                                        ks2 == IF key.v.v \in DOMAIN d THEN ks
                                               ELSE Append(ks, key.v.v)
                                    IN IF j > Len(cs) THEN JsonFail
                                       ELSE IF cs[j] = ","
                                            THEN ParseMembers(cs, j + 1, d2, ks2)
                                       ELSE IF cs[j] = "}"
                                            THEN JsonOk(JsonDict(d2, ks2), j + 1)
                                       ELSE JsonFail

\* json.loads(raw), line 77: one value and nothing but whitespace after it
json_loads(cs) ==
    LET r == ParseValue(cs, 1)
    IN IF r.ok /\ SkipWs(cs, r.pos) > Len(cs) THEN r ELSE JsonFail

\* s.strip()
strip(cs) ==
    LET kept == {j \in 1..Len(cs) : ~IsSpace(cs[j])}
    IN IF kept = {} THEN <<>>
       ELSE SubSeq(cs, CHOOSE j \in kept : \A k \in kept : j <= k,
                       CHOOSE j \in kept : \A k \in kept : j >= k)

\* s.split(",")
RECURSIVE split(_, _)
split(cs, sep) ==
    LET k == IndexFrom(cs, sep, 1)
    IN IF k = 0 THEN <<cs>>
       ELSE <<SubSeq(cs, 1, k - 1)>> \o split(SubSeq(cs, k + 1, Len(cs)), sep)

KEYWORDS == <<"k", "e", "y", "w", "o", "r", "d", "s">>

\* the words line 85 refuses
StopWords ==
    {<<"a", "i">>, <<"t", "e", "c", "h">>,
     <<"t", "e", "c", "h", "n", "o", "l", "o", "g", "y">>,
     <<"n", "e", "w", "s">>, <<"t", "o", "d", "a", "y">>, <<"p", "o", "s", "t">>}

\* the tags line 90 refuses
TagStopWords == {<<"a", "i">>, <<"t", "e", "c", "h", "n", "o", "l", "o", "g", "y">>}

\* the characters the pattern of line 84 keeps
KeptChar(c) ==
    c \in LowerLetters \cup Range(DigitChars) \cup {"-", "."} \/ IsSpace(c)

\* lines 83-84 on one keyword; lower() is exact on the letters LowerChar
\* knows, which are the capitals the model's inputs use
CleanKeyword(cs) ==
    LET low == lower(cs)
        k1 == IF low # <<>> /\ low[1] \in {"#", "@"} THEN Tail(low) ELSE low
    IN strip(SelectSeq(k1, KeptChar))

\* whether `for k in kws` can iterate the value (line 82)
Iterable(v) == v.t \in {"list", "text", "dict"}

\* what the iteration yields: the elements of a list, the characters of a
\* str, the keys of a dict
Items(v) ==
    CASE v.t = "list" -> v.v
      [] v.t = "text" -> [i \in 1..Len(v.v) |-> PyText(<<v.v[i]>>)]
      [] OTHER -> [i \in 1..Len(v.keys) |-> PyText(v.keys[i])]

\* lines 82-86: k.lower() raises on an element that is no str
RECURSIVE CleanAll(_, _, _)
CleanAll(items, i, cleaned) ==
    IF i > Len(items) THEN [raised |-> FALSE, cleaned |-> cleaned]
    ELSE IF items[i].t # "text" THEN [raised |-> TRUE, cleaned |-> cleaned]
    ELSE LET k == CleanKeyword(items[i].v)
         IN CleanAll(items, i + 1,
                     IF k # <<>> /\ k \notin StopWords /\ k \notin Range(cleaned)
                     THEN Append(cleaned, k) ELSE cleaned)

\* lines 88-93
RECURSIVE FillFromTags(_, _, _)
FillFromTags(tags, i, cleaned) ==
    IF i > Len(tags) THEN cleaned
    ELSE LET t == strip(lower(tags[i]))
             c2 == IF t # <<>> /\ t \notin Range(cleaned) /\ t \notin TagStopWords
                   THEN Append(cleaned, t) ELSE cleaned
         IN IF Len(c2) >= 3 THEN c2 ELSE FillFromTags(tags, i + 1, c2)

NonEmptyText(x) == x.v # <<>>

\* line 80: the stripped, non-empty pieces between commas
CommaSplit(cs) ==
    LET parts == split(cs, ",")
    IN SelectSeq([i \in 1..Len(parts) |-> PyText(strip(parts[i]))], NonEmptyText)

\* lines 75-94: the returned list, or raised when an exception leaves the
\* function.  obj.get exists on a dict only; on any other JSON value the
\* AttributeError is caught by line 79 like a JSONDecodeError.
parse_keywords(rw, fallback_tags) ==
    LET j == json_loads(rw)
        kws == IF j.ok /\ j.v.t = "dict"
               THEN PyOr(DictGet(j.v.v, KEYWORDS), PyList(<<>>))
               ELSE PyList(CommaSplit(rw))
    IN IF ~Iterable(kws) THEN [raised |-> TRUE, kws |-> <<>>]
       ELSE LET c == CleanAll(Items(kws), 1, <<>>)
            IN IF c.raised THEN [raised |-> TRUE, kws |-> <<>>]
               ELSE [raised |-> FALSE,
                     kws |-> Take(IF Len(c.cleaned) < 3
                                  THEN FillFromTags(fallback_tags, 1, c.cleaned)
                                  ELSE c.cleaned, 3)]

\* model outputs: text in quotes, and the "keywords" object around a value
Quoted(w) == <<QUOTE>> \o w \o <<QUOTE>>
KeywordsObject(v) == <<"{">> \o Quoted(KEYWORDS) \o <<":", " ">> \o v \o <<"}">>

\* what the model can answer (line 73): the object asked for, with a
\* repeated and a stop word; four keywords; elements that are numbers; a
\* number or a string in place of the list; an array; an answer that is no
\* JSON; an object without the key
RawOutputs ==
    {KeywordsObject(<<"[">> \o Quoted(<<"m", "l">>) \o <<",", " ">>
                    \o Quoted(<<"#", "A", "B">>) \o <<",">> \o Quoted(<<"m", "l">>)
                    \o <<",">> \o Quoted(<<"a", "i">>) \o <<"]">>),
     KeywordsObject(<<"[">> \o Quoted(<<"a">>) \o <<",">> \o Quoted(<<"b">>) \o <<",">>
                    \o Quoted(<<"x">>) \o <<",">> \o Quoted(<<"y">>) \o <<"]">>),
     KeywordsObject(<<"[", "1", ",", " ", "2", "]">>),
     KeywordsObject(<<"5">>),
     KeywordsObject(Quoted(<<"a", "b">>)),
     <<"[">> \o Quoted(<<"a">>) \o <<",">> \o Quoted(<<"b">>) \o <<"]">>,
     <<"a", ",", " ", "b", "!", ",", ",", "x", " ", "y">>,
     <<"{">> \o Quoted(<<"k">>) \o <<":", "1", "}">>}

\* the tag lists of the loaded posts (line 103 has lowered them)
TagLists ==
    {<<>>,
     << <<"m", "l">> >>,
     << <<"a", "i">>, <<"n", "l", "p">>, <<"b">>, <<"y">>, <<"x">> >>}

\* the cleaned texts of the loaded posts
Texts == {<<>>, <<"h", "i">>}

\* lines 100-105: a loaded post; every loaded post is given the same id
\* here, as the rows are told apart by their position
ContentPosts == {[id |-> "p", text |-> x, tags |-> t] : x \in Texts, t \in TagLists}

ContentPostLists == UNION {[1..n -> ContentPosts] : n \in 0..MaxContentPosts}

\* the other scripts are not running
OthersIdleForContent ==
    /\ posts = <<>>
    /\ users = <<>>
    /\ user_edges = None
    /\ G_info = EmptyGraph(TRUE)
    /\ G_friend = EmptyGraph(FALSE)
    /\ added = 0
    /\ fallback = FALSE
    /\ handed = {}
    /\ csv_out = NoCsv
    /\ pc = "idle"
    /\ CollectorIdle
    /\ UsersIdle

\* lines 120-125
InitContent ==
    /\ content_posts \in ContentPostLists
    /\ post_i = 1
    /\ attempts = 0
    /\ raw = <<>>
    /\ rows = <<>>
    /\ error = "none"
    /\ saved_rows = <<>>
    /\ kpc = "for_post"
    /\ OthersIdleForContent

\* line 133
Row(p, kws) == [id |-> p.id, keywords |-> kws]

\* lines 126-128 and 133: a post without text and tags gets no keywords
SkipEmptyPost ==
    /\ kpc = "for_post"
    /\ post_i <= Len(content_posts)
    /\ LET p == content_posts[post_i]
       IN /\ p.text = <<>> /\ p.tags = <<>>
          /\ rows' = Append(rows, Row(p, <<>>))
    /\ post_i' = post_i + 1
    /\ UNCHANGED <<content_posts, attempts, raw, error, saved_rows, kpc>>
    /\ UNCHANGED outside_content

\* lines 129-131: call_llm is entered for the post
StartCall ==
    /\ kpc = "for_post"
    /\ post_i <= Len(content_posts)
    /\ LET p == content_posts[post_i]
       IN ~(p.text = <<>> /\ p.tags = <<>>)
    /\ attempts' = 0
    /\ kpc' = "call"
    /\ UNCHANGED <<content_posts, post_i, raw, rows, error, saved_rows>>
    /\ UNCHANGED outside_content

\* lines 60-73: an attempt returns the model's answer
AttemptSucceeds ==
    /\ kpc = "call"
    /\ attempts' = attempts + 1
    /\ \E r \in RawOutputs : raw' = r
    /\ kpc' = "parse"
    /\ UNCHANGED <<content_posts, post_i, rows, error, saved_rows>>
    /\ UNCHANGED outside_content

\* line 60: an attempt raises; the retry policy waits and tries again, or
\* after the attempt numbered MaxAttempts raises RetryError, which line 131
\* does not catch
AttemptFails ==
    /\ kpc = "call"
    /\ attempts' = attempts + 1
    /\ IF attempts + 1 >= MaxAttempts
       THEN /\ kpc' = "raised"
            /\ error' = "RetryError"
       ELSE UNCHANGED <<kpc, error>>
    /\ UNCHANGED <<content_posts, post_i, raw, rows, saved_rows>>
    /\ UNCHANGED outside_content

\* lines 132-134: parse_keywords returns and the row is appended, or an
\* exception leaves it, which nothing catches
ParseKeywords ==
    /\ kpc = "parse"
    /\ LET p == content_posts[post_i]
           r == parse_keywords(raw, p.tags)
       IN IF r.raised
          THEN /\ kpc' = "raised"
               /\ error' = "parse_keywords"
               /\ UNCHANGED <<post_i, rows>>
          ELSE /\ rows' = Append(rows, Row(p, r.kws))
               /\ post_i' = post_i + 1
               /\ kpc' = "for_post"
               /\ UNCHANGED error
    /\ UNCHANGED <<content_posts, attempts, raw, saved_rows>>
    /\ UNCHANGED outside_content

\* line 136: the loop is over and the rows are written
SaveRows ==
    /\ kpc = "for_post"
    /\ post_i > Len(content_posts)
    /\ saved_rows' = rows
    /\ kpc' = "saved"
    /\ UNCHANGED <<content_posts, post_i, attempts, raw, rows, error>>
    /\ UNCHANGED outside_content

NextContent ==
    \/ SkipEmptyPost
    \/ StartCall
    \/ AttemptSucceeds
    \/ AttemptFails
    \/ ParseKeywords
    \/ SaveRows

SpecContent == InitContent /\ [][NextContent]_vars

-----------------------------------------------------------------------------
(* collect_users: breadth-first expansion over followers and following *)

\* a page holds fewer accounts than the target, as 40 is fewer than 200
\* (lines 24-25)
FETCH_LIMIT == TARGET_USERS - 1

AccountIds == 1..MaxAccounts

\* an account as the server returns it
Account(i) == [k \in {"id", "acct"} |-> IF k = "id" THEN PyInt(i) ELSE PyStr("user")]

\* an account whose id is None, which lines 88-90 provide for
NoIdAccount == [k \in {"id", "acct"} |-> IF k = "id" THEN None ELSE PyStr("user")]

\* lines 30-42, for the fields the model's accounts carry
normalize_user(a) == [k \in {"id", "acct", "username"} |-> DictGet(a, k)]

\* what a follower or following call can answer: at most FETCH_LIMIT
\* accounts of the server, no account twice, in any order, whatever the
\* account asked about and whatever was answered before
AccountPages ==
    UNION {{[i \in 1..n |-> Account(ids[i])] :
               ids \in {l \in [1..n -> AccountIds] :
                           \A i, j \in 1..n : i # j => l[i] # l[j]}} :
           n \in 0..FETCH_LIMIT}

\* m.account_followers(uid, limit=FETCH_LIMIT), line 94, when it answers
account_followers(uid) == AccountPages

\* m.account_following(uid, limit=FETCH_LIMIT), line 101, when it answers
account_following(uid) == AccountPages

\* the seed lists main can pass (lines 116-125): none, one, one twice, one
\* without id, and more seeds than the target
SeedLists ==
    {<<>>,
     <<Account(1)>>,
     <<Account(1), Account(1)>>,
     <<NoIdAccount, Account(2)>>,
     <<Account(2), Account(1)>>,
     <<NoIdAccount, Account(1), Account(2), Account(3)>>}

\* the lists of expand_users together
UState(sn, q, o, enq) == [seen |-> sn, queue |-> q, out |-> o, enq |-> enq]

\* lines 68-72
RECURSIVE AddSeeds(_, _, _)
AddSeeds(accts, i, st) ==
    IF i > Len(accts) THEN st
    ELSE LET a == accts[i]
         IN AddSeeds(accts, i + 1,
                IF a["id"] \notin st.seen
                THEN UState(st.seen \cup {a["id"]}, Append(st.queue, a),
                            Append(st.out, normalize_user(a)), Append(st.enq, a["id"]))
                ELSE st)

\* add_iter without the test `uid not in seen_ids`
RECURSIVE add_iter_unseen(_, _, _)
add_iter_unseen(iterable, i, st) ==
    IF i > Len(iterable) THEN [hit |-> FALSE, st |-> st]
    ELSE LET u == iterable[i]
             uid == DictGet(u, "id")
         IN IF Truthy(uid)
            THEN LET st2 == UState(st.seen \cup {uid}, Append(st.queue, u),
                                   Append(st.out, normalize_user(u)), Append(st.enq, uid))
                 IN IF Len(st2.out) >= TARGET_USERS
                    THEN [hit |-> TRUE, st |-> st2]
                    ELSE add_iter_unseen(iterable, i + 1, st2)
            ELSE add_iter_unseen(iterable, i + 1, st)

\* lines 74-84: whether the target was reached, with the lists after the call
RECURSIVE add_iter(_, _, _)
add_iter(iterable, i, st) ==
    IF i > Len(iterable) THEN [hit |-> FALSE, st |-> st]
    ELSE LET u == iterable[i]
             uid == DictGet(u, "id")
         IN IF Truthy(uid) /\ uid \notin st.seen
            THEN LET st2 == UState(st.seen \cup {uid}, Append(st.queue, u),
                                   Append(st.out, normalize_user(u)), Append(st.enq, uid))
                 IN IF Len(st2.out) >= TARGET_USERS
                    THEN [hit |-> TRUE, st |-> st2]
                    ELSE add_iter(iterable, i + 1, st2)
            ELSE add_iter(iterable, i + 1, st)

\* the other scripts are not running
OthersIdleForUsers ==
    /\ posts = <<>>
    /\ users = <<>>
    /\ user_edges = None
    /\ G_info = EmptyGraph(TRUE)
    /\ G_friend = EmptyGraph(FALSE)
    /\ added = 0
    /\ fallback = FALSE
    /\ handed = {}
    /\ csv_out = NoCsv
    /\ pc = "idle"
    /\ CollectorIdle
    /\ ContentIdle

\* lines 60-66
InitUsers ==
    /\ start_accounts \in SeedLists
    /\ seen_ids = {}
    /\ queue = <<>>
    /\ users_out = <<>>
    /\ enqueued = <<>>
    /\ api_calls = 0
    /\ api_failed = FALSE
    /\ cur = None
    /\ returned = <<>>
    /\ upc = "seeds"
    /\ OthersIdleForUsers

\* lines 68-72: the seeds are taken in
TakeSeeds ==
    /\ upc = "seeds"
    /\ LET st == AddSeeds(start_accounts, 1, UState(seen_ids, queue, users_out, enqueued))
       IN /\ seen_ids' = st.seen
          /\ queue' = st.queue
          /\ users_out' = st.out
          /\ enqueued' = st.enq
    /\ upc' = "loop"
    /\ UNCHANGED <<start_accounts, api_calls, api_failed, cur, returned>>
    /\ UNCHANGED outside_users

\* line 86: the while condition fails
LoopExit ==
    /\ upc = "loop"
    /\ ~(queue # <<>> /\ Len(users_out) < TARGET_USERS)
    /\ upc' = "return"
    /\ UNCHANGED <<start_accounts, seen_ids, queue, users_out, enqueued,
                   api_calls, api_failed, cur, returned>>
    /\ UNCHANGED outside_users

\* lines 86-89: the next account is popped
PopAccount ==
    /\ upc = "loop"
    /\ queue # <<>> /\ Len(users_out) < TARGET_USERS
    /\ Truthy(DictGet(Head(queue), "id"))
    /\ cur' = Head(queue)
    /\ queue' = Tail(queue)
    /\ upc' = "followers"
    /\ UNCHANGED <<start_accounts, seen_ids, users_out, enqueued,
                   api_calls, api_failed, returned>>
    /\ UNCHANGED outside_users

\* lines 86-90: the popped account has no id and is passed over
PopNoId ==
    /\ upc = "loop"
    /\ queue # <<>> /\ Len(users_out) < TARGET_USERS
    /\ ~Truthy(DictGet(Head(queue), "id"))
    /\ cur' = Head(queue)
    /\ queue' = Tail(queue)
    /\ UNCHANGED <<start_accounts, seen_ids, users_out, enqueued,
                   api_calls, api_failed, returned, upc>>
    /\ UNCHANGED outside_users

\* lines 93-95: the followers call answers; add_iter takes the page in, and
\* the loop breaks when the target is reached
FollowersAnswer ==
    /\ upc = "followers"
    /\ \E answer \in account_followers(cur["id"]) :
       LET r == add_iter(answer, 1, UState(seen_ids, queue, users_out, enqueued))
       IN /\ seen_ids' = r.st.seen
          /\ queue' = r.st.queue
          /\ users_out' = r.st.out
          /\ enqueued' = r.st.enq
          /\ upc' = IF r.hit THEN "return" ELSE "following"
    /\ api_calls' = api_calls + 1
    /\ UNCHANGED <<start_accounts, api_failed, cur, returned>>
    /\ UNCHANGED outside_users

\* lines 96-97: the followers call raises and the except clause passes
FollowersFail ==
    /\ upc = "followers"
    /\ api_calls' = api_calls + 1
    /\ api_failed' = TRUE
    /\ upc' = "following"
    /\ UNCHANGED <<start_accounts, seen_ids, queue, users_out, enqueued,
                   cur, returned>>
    /\ UNCHANGED outside_users

\* lines 100-102 and 106: the following call answers
FollowingAnswer ==
    /\ upc = "following"
    /\ \E answer \in account_following(cur["id"]) :
       LET r == add_iter(answer, 1, UState(seen_ids, queue, users_out, enqueued))
       IN /\ seen_ids' = r.st.seen
          /\ queue' = r.st.queue
          /\ users_out' = r.st.out
          /\ enqueued' = r.st.enq
          /\ upc' = IF r.hit THEN "return" ELSE "loop"
    /\ api_calls' = api_calls + 1
    /\ UNCHANGED <<start_accounts, api_failed, cur, returned>>
    /\ UNCHANGED outside_users

\* lines 103-106: the following call raises and the except clause passes
FollowingFail ==
    /\ upc = "following"
    /\ api_calls' = api_calls + 1
    /\ api_failed' = TRUE
    /\ upc' = "loop"
    /\ UNCHANGED <<start_accounts, seen_ids, queue, users_out, enqueued,
                   cur, returned>>
    /\ UNCHANGED outside_users

\* line 108
ReturnUsers ==
    /\ upc = "return"
    /\ returned' = Take(users_out, TARGET_USERS)
    /\ upc' = "done"
    /\ UNCHANGED <<start_accounts, seen_ids, queue, users_out, enqueued,
                   api_calls, api_failed, cur>>
    /\ UNCHANGED outside_users

NextUsers ==
    \/ TakeSeeds
    \/ LoopExit
    \/ PopAccount
    \/ PopNoId
    \/ FollowersAnswer
    \/ FollowersFail
    \/ FollowingAnswer
    \/ FollowingFail
    \/ ReturnUsers

\* the script is sequential: whenever a statement can run, it runs
SpecUsers == InitUsers /\ [][NextUsers]_vars /\ WF_vars(NextUsers)

-----------------------------------------------------------------------------
(* Properties of the diffusion graph *)

InfoBuilt == pc \in {"gexf_info", "csv_info", "done", "raised"}

PostIdSet == {str(posts[i]["id"]) : i \in 1..Len(posts)}

\* a parent reference of post i that names no post of the list
Dangling(i, field) ==
    /\ posts[i][field] # None
    /\ str(posts[i][field]) \notin PostIdSet

\* C1: once the diffusion graph is built its node set is exactly the set of
\* str(id) of the posts and both ends of every edge are in that set; a parent
\* reference to a post outside the list adds neither an edge nor a node.
C1_NoDanglingEdges ==
    InfoBuilt =>
        /\ Range(G_info.nodes) = PostIdSet
        /\ \A e \in Range(G_info.edges) : e[1] \in PostIdSet /\ e[2] \in PostIdSet

C1_Witness ==
    /\ InfoBuilt
    /\ \E i \in 1..Len(posts) :
          /\ Dangling(i, "in_reply_to_id") \/ Dangling(i, "reblog_of_id")
          /\ G_info.edges # <<>>

UniquePostIds == Cardinality(PostIdSet) = Len(posts)

\* post i names a post of the list as its parent in the given field
HasParent(i, field) ==
    /\ posts[i][field] # None
    /\ str(posts[i][field]) \in PostIdSet

ParentEdge(i, field) == <<str(posts[i][field]), str(posts[i]["id"])>>

ExpectedEdges ==
    {ParentEdge(i, "in_reply_to_id") : i \in {j \in 1..Len(posts) : HasParent(j, "in_reply_to_id")}}
    \cup {ParentEdge(i, "reblog_of_id") : i \in {j \in 1..Len(posts) : HasParent(j, "reblog_of_id")}}

KindOf(e) == G_info.eattr[e]["kind"]

\* C2 as stated: with unique ids, every reply parent in the list gives an
\* edge parent -> p tagged reply, every reblog parent in the list gives an
\* edge parent -> p tagged boost, and there is no other edge.
C2_Original ==
    (InfoBuilt /\ UniquePostIds) =>
        /\ Range(G_info.edges) = ExpectedEdges
        /\ \A i \in 1..Len(posts) :
              /\ HasParent(i, "in_reply_to_id") =>
                    /\ ParentEdge(i, "in_reply_to_id") \in Range(G_info.edges)
                    /\ KindOf(ParentEdge(i, "in_reply_to_id")) = PyStr("reply")
              /\ HasParent(i, "reblog_of_id") =>
                    /\ ParentEdge(i, "reblog_of_id") \in Range(G_info.edges)
                    /\ KindOf(ParentEdge(i, "reblog_of_id")) = PyStr("boost")

\* both parents of post i are in the list and are the same post
SameParent(i) ==
    /\ HasParent(i, "in_reply_to_id")
    /\ HasParent(i, "reblog_of_id")
    /\ str(posts[i]["in_reply_to_id"]) = str(posts[i]["reblog_of_id"])

\* C2 amended: as C2, except that a post whose reply parent and reblog parent
\* are the same post gets the single edge parent -> p tagged boost; two
\* different parents give two edges, one tagged reply and one tagged boost.
C2_Amended ==
    (InfoBuilt /\ UniquePostIds) =>
        /\ Range(G_info.edges) = ExpectedEdges
        /\ \A i \in 1..Len(posts) :
              /\ (HasParent(i, "in_reply_to_id") /\ ~SameParent(i)) =>
                    KindOf(ParentEdge(i, "in_reply_to_id")) = PyStr("reply")
              /\ HasParent(i, "reblog_of_id") =>
                    KindOf(ParentEdge(i, "reblog_of_id")) = PyStr("boost")

C2_Witness ==
    /\ InfoBuilt
    /\ UniquePostIds
    /\ \E i \in 1..Len(posts) :
          /\ HasParent(i, "in_reply_to_id")
          /\ HasParent(i, "reblog_of_id")
          /\ ~SameParent(i)
          /\ Len(G_info.edges) >= 2

-----------------------------------------------------------------------------
(* Properties of the friendship graph *)

FriendBuilt == pc \in {"gexf_friend", "csv_friend", "done", "raised"}

ReasonOf(e) == G_friend.eattr[e]["reason"]

\* C5: the fallback branch runs exactly when the hints produced no edge: with
\* no hint file, an empty hint list or only skipped hints it runs and every
\* edge is a same_domain edge; when a hint produced an edge it adds none.
C5_FallbackIffNoHintEdge ==
    FriendBuilt =>
        /\ fallback <=> (added = 0)
        /\ ~Truthy(user_edges) => fallback
        /\ fallback => \A e \in Range(G_friend.edges) : ReasonOf(e) = PyStr("same_domain")
        /\ ~fallback =>
              /\ G_friend.edges # <<>>
              /\ Len(G_friend.edges) <= added
              /\ \A e \in Range(G_friend.edges) : ReasonOf(e) # PyStr("same_domain")

C5_Witness ==
    /\ FriendBuilt
    /\ Truthy(user_edges)
    /\ added = 0
    /\ fallback
    /\ G_friend.edges # <<>>

UserIdSet == {str(users[i]["id"]) : i \in 1..Len(users)}

DomainOfUser(i) == domain_from_acct(users[i]["acct"])

\* the users of one derived domain, in input order
Bucket(d) ==
    LET idx == SelectSeq([i \in 1..Len(users) |-> i], LAMBDA i : DomainOfUser(i) = d)
    IN [k \in 1..Len(idx) |-> str(users[idx[k]]["id"])]

Domains == {DomainOfUser(i) : i \in 1..Len(users)}

PathEdges(b) == {{b[i], b[i + 1]} : i \in 1..(Len(b) - 1)}

RECURSIVE SumOver(_, _)
SumOver(S, f) ==
    IF S = {} THEN 0
    ELSE LET x == CHOOSE y \in S : TRUE IN f[x] + SumOver(S \ {x}, f)

\* C6: when the fallback runs, the edges are exactly the path edges of each
\* domain bucket (member i to member i+1 in input order), all tagged
\* same_domain: n - 1 per bucket of n, none for a bucket of 1, at least one
\* at every user that has a same-domain peer, sum of (n - 1) in total.
C6_FallbackPaths ==
    (FriendBuilt /\ fallback) =>
        LET bucket == [d \in Domains |-> Bucket(d)]
            E == Range(G_friend.edges)
        IN /\ E = UNION {PathEdges(bucket[d]) : d \in Domains}
           /\ \A d \in Domains :
                 Cardinality({e \in E : e \subseteq Range(bucket[d])}) = Len(bucket[d]) - 1
           /\ \A e \in E : ReasonOf(e) = PyStr("same_domain")
           /\ Len(G_friend.edges) = SumOver(Domains, [d \in Domains |-> Len(bucket[d]) - 1])
           /\ \A i, j \in 1..Len(users) :
                 (i # j /\ DomainOfUser(i) = DomainOfUser(j)) =>
                     \E e \in E : str(users[i]["id"]) \in e

C6_Witness ==
    /\ FriendBuilt
    /\ fallback
    /\ \E d \in Domains : Len(Bucket(d)) = 3
    /\ Len(G_friend.edges) = 2

\* C7: the node set of the friendship graph is exactly the set of the
\* identifiers of the input users, whatever the hints name.
C7_NodesAreUsers ==
    FriendBuilt => Range(G_friend.nodes) = UserIdSet

\* C8: the friendship graph has no self-loop: a hint whose two sides resolve
\* to the same user adds no edge.
C8_NoSelfLoop ==
    FriendBuilt => \A e \in Range(G_friend.edges) : Cardinality(e) = 2

-----------------------------------------------------------------------------
(* Properties of the export *)

\* C9: every graph handed to write_gexf or write_csvs carries no attribute
\* whose value is None.
C9_HandedSanitized ==
    \A G \in handed : ~HasNullAttr(G)

AlphaIndex(k) == CHOOSE i \in 1..Len(AttrNames) : AttrNames[i] = k

\* header h is the fixed columns followed by the key set K in alphabetical order
IsSortedHeader(h, fixed, K) ==
    /\ Len(h) = Len(fixed) + Cardinality(K)
    /\ SubSeq(h, 1, Len(fixed)) = fixed
    /\ {h[i] : i \in (Len(fixed) + 1)..Len(h)} = K
    /\ \A i \in (Len(fixed) + 1)..(Len(h) - 1) : AlphaIndex(h[i]) < AlphaIndex(h[i + 1])

\* row r has one cell per column of h; a column the bag lacks, or holds None
\* for, is the empty cell
IsFullRow(r, h, nfixed, bag) ==
    /\ Len(r) = Len(h)
    /\ \A i \in (nfixed + 1)..Len(h) :
          r[i] = IF h[i] \in DOMAIN bag /\ bag[h[i]] # None THEN bag[h[i]] ELSE PyStr("")

-----------------------------------------------------------------------------
(* Properties of the deduplicated collection *)

IdsOf(o) == {o[i]["id"] : i \in 1..Len(o)}

NoRepeatedId(o) == \A i, j \in 1..Len(o) : i # j => o[i]["id"] # o[j]["id"]

\* a step in which _add_status was called
AddCalled == last_add'.n # last_add.n

\* C3: a call of _add_status returns True exactly when the identifier is not
\* in seen, and then appends one record and adds the identifier; otherwise it
\* leaves seen and out alone.  Hence out never holds an identifier twice.
C3_AdmitOnce ==
    /\ [][AddCalled =>
            LET sid == last_add'.s["id"]
            IN /\ last_add'.ret <=> (sid \notin seen)
               /\ sid \notin seen =>
                     /\ seen' = seen \cup {sid}
                     /\ Len(out') = Len(out) + 1
                     /\ SubSeq(out', 1, Len(out)) = out
                     /\ out'[Len(out')]["id"] = sid
               /\ sid \in seen => (seen' = seen /\ out' = out)]_vars
    /\ [](NoRepeatedId(out) /\ IdsOf(out) = seen)

\* the same identifier came on two pages (or on a page and in a context) and
\* was refused the second time
C3_Witness ==
    /\ fetches >= 2
    /\ Len(out) >= 2
    /\ last_add.s # None
    /\ last_add.ret = FALSE
    /\ last_add.s["id"] \in seen

IsPrefix(a, b) == Len(a) <= Len(b) /\ SubSeq(b, 1, Len(a)) = a

\* C4: out is only ever appended to, so a record keeps the position it was
\* admitted at, and seen never loses an identifier.
C4_AppendOnly ==
    [][IsPrefix(out, out') /\ seen \subseteq seen']_vars

\* the run ended with records admitted from a page and from a context, and
\* the saved list is in another order than out
C4_Witness ==
    /\ cpc = "saved"
    /\ Len(out) = want
    /\ final_posts # Take(out, TARGET_COUNT)

-----------------------------------------------------------------------------
(* Properties of the collection caps *)

\* a step in which timeline_hashtag or status_context was called
ApiCalled == fetches' # fetches \/ (cpc = "expand" /\ cpc' = "for_ctx")

\* C13: collect_with_expansion never holds more than target + buffer records
\* and never admits more than MAX_CONTEXT_POSTS_PER_SEED records from the
\* context of one seed; once target + buffer records are held, no step admits
\* a record, fetches a page or expands a context.
C13_Caps ==
    /\ [](Len(out) <= want /\ context_added <= MAX_CONTEXT_POSTS_PER_SEED)
    /\ [][Len(out) >= want =>
             /\ out' = out
             /\ seen' = seen
             /\ ~ApiCalled]_vars

\* both caps were met: the last seed's context filled its share and the
\* collection reached target + buffer, then returned
C13_Witness ==
    /\ cpc = "saved"
    /\ Len(out) = want
    /\ context_added = MAX_CONTEXT_POSTS_PER_SEED
    /\ fetches >= 1

\* C14: a raising thread-context fetch or hashtag-timeline fetch never ends
\* the run, and the seed whose context fetch raised is among the collected
\* records.
C14_OptionalFailureNotFatal ==
    /\ cpc # "raised"
    /\ (ctx_raised /\ cpc = "for_ctx") => page[seed_i]["id"] \in IdsOf(out)

\* C16: the list the collector saves has exactly TARGET_COUNT records, none
\* repeated, and holds a record without a parent reference only if it holds
\* every collected record that has one.
C16_ExactlyFinalN ==
    cpc = "saved" =>
        /\ Len(final_posts) = TARGET_COUNT
        /\ NoRepeatedId(final_posts)
        /\ IdsOf(final_posts) \subseteq IdsOf(out)
        /\ (\E i \in 1..Len(final_posts) : NotConnected(final_posts[i])) =>
              \A j \in 1..Len(out) :
                  IsConnected(out[j]) => out[j] \in Range(final_posts)

-----------------------------------------------------------------------------
(* Properties of the keyword extraction *)

\* C11: call_llm is attempted at most MaxAttempts times for a post; after an
\* attempt that succeeds the run goes on to the next post, with a row for
\* this one; MaxAttempts failures in a row end the run with RetryError, and a
\* run that has ended processes no further post.
C11_RetryCeiling ==
    /\ [](attempts <= MaxAttempts)
    /\ [](kpc = "call" => attempts < MaxAttempts)
    /\ [](error = "RetryError" => (kpc = "raised" /\ attempts = MaxAttempts))
    /\ [](kpc = "parse" => attempts \in 1..MaxAttempts)
    /\ [][kpc = "parse" =>
             /\ kpc' = "for_post"
             /\ post_i' = post_i + 1
             /\ Len(rows') = Len(rows) + 1]_vars
    /\ [][kpc = "raised" => UNCHANGED <<post_i, rows, kpc>>]_vars

NoRepeats(l) == \A i, j \in 1..Len(l) : i # j => l[i] # l[j]

\* C12: whatever the model returned, parse_keywords returns: no run ends
\* inside it, and every row holds at most 3 keywords, no two the same.
C12_ParseNeverFails ==
    /\ error # "parse_keywords"
    /\ kpc = "parse" => ~parse_keywords(raw, content_posts[post_i].tags).raised
    /\ \A i \in 1..Len(rows) :
          /\ Len(rows[i].keywords) <= 3
          /\ NoRepeats(rows[i].keywords)

-----------------------------------------------------------------------------
(* Properties of the user expansion *)

UserIdsOf(l) == [i \in 1..Len(l) |-> l[i]["id"]]

\* a step of the while loop of expand_users that calls the API
UserApiCalled == api_calls' # api_calls

====
